---- MODULE Spec2Model ----
(***************************************************************************)
(* A model of GSM_500hPa_2D_Animation_HTML.py: the script that picks the   *)
(* latest GFS run, downloads one GRIB2 file per keyframe offset, regrids   *)
(* three fields of it onto a fixed grid, builds one Plotly frame per       *)
(* keyframe and writes the animation to an HTML file.                      *)
(*                                                                         *)
(* Instants are whole seconds since 1970-01-01 00:00 UTC.  The network,    *)
(* the GRIB decoder and the interpolation are the environment: each call   *)
(* either returns or raises, and the model takes both branches.            *)
(***************************************************************************)
EXTENDS Integers, Sequences, FiniteSets

VARIABLES
    now_utc,                    \* datetime.now(timezone.utc), read once (line 17)
    BASE_DATE,                  \* line 23
    grid,                       \* (grid_x, grid_y), line 38
    pc,                         \* the script's position
    k,                          \* 1-based position of the for loop in KEYFRAME_HOURS
    keyframe_data_list_500hpa,  \* line 32
    keyframe_data_list_850t,    \* line 33
    keyframe_data_list_mslp,    \* line 34
    fileExists,                 \* whether temp_gfs_data.grib2 exists on disk
    filePayload,                \* <<hour>> once the response of offset hour is in the file
    requested,                  \* the requests prepared so far, lines 41-54, in order
    frames,                     \* line 95
    fig_frames,                 \* fig.frames, line 144
    slider_steps,               \* line 158 (labels)
    outputWritten               \* gfs_final_animation.html written, line 193

vars == <<now_utc, BASE_DATE, grid, pc, k, keyframe_data_list_500hpa,
          keyframe_data_list_850t, keyframe_data_list_mslp, fileExists,
          filePayload, requested, frames, fig_frames, slider_steps,
          outputWritten>>

-----------------------------------------------------------------------------
(* Program constants *)

KEYFRAME_HOURS == <<-48, -36, -24, -12, 0, 12, 24, 36, 48>>

NumKeyframes == Len(KEYFRAME_HOURS)

LatencyHours == 7

CycleHours == 6

MinKeyframes == 2

JSTOffsetHours == 9

plot_x_min == 60

plot_x_max == 180

plot_y_min == 0

plot_y_max == 70

GridNx == 121

GridNy == 71

\* DOW_MAP, indexed by Python's weekday() + 1 (Mon = 1); the values are the
\* readings of the kanji the source maps the English abbreviations to.
DOW_MAP == <<"getsu", "ka", "sui", "moku", "kin", "do", "nichi">>

-----------------------------------------------------------------------------
(* Bounds of the model *)

\* The pipeline is explored for MaxNowSpec + 1 clock readings.
MaxNowSpec == 1

\* The time computations are explored for every hour 0..MaxNowHour after each
\* base day, at several positions within the hour.
MaxNowHour == 49

-----------------------------------------------------------------------------
(* datetime arithmetic *)

HourSecs == 60 * 60

DaySecs == 24 * HourSecs

\* timedelta(hours=h)
timedelta_hours(h) == h * HourSecs

\* datetime.hour
HourOf(t) == (t \div HourSecs) % 24

MinuteOf(t) == (t \div 60) % 60

\* datetime.replace(hour=h, minute=0, second=0, microsecond=0)
ReplaceHour(t, h) == (t \div DaySecs) * DaySecs + h * HourSecs

\* The proleptic Gregorian date of day number z (days since 1970-01-01), as
\* datetime computes it: <<month, day>>.
MonthDay(z) ==
    LET s   == z + 719468
        era == s \div 146097
        doe == s - era * 146097
        yoe == (doe - doe \div 1460 + doe \div 36524 - doe \div 146096) \div 365
        doy == doe - (365 * yoe + yoe \div 4 - yoe \div 100)
        mp  == (5 * doy + 2) \div 153
        d   == doy - (153 * mp + 2) \div 5 + 1
        m   == IF mp < 10 THEN mp + 3 ELSE mp - 9
    IN  <<m, d>>

\* datetime.weekday() + 1: Monday = 1
WeekdayOf(z) == ((z + 3) % 7) + 1

\* The cycle taken of the current time, the latency margin forgotten
get_latest_gfs_run_no_latency(now) ==
    ReplaceHour(now, (HourOf(now) \div CycleHours) * CycleHours)

\* get_latest_gfs_run, lines 16-21
get_latest_gfs_run(now) ==
    LET latest_run_time == now - timedelta_hours(LatencyHours)
        run_hour == (HourOf(latest_run_time) \div CycleHours) * CycleHours
    IN  ReplaceHour(latest_run_time, run_hour)

\* The earlier issue time of a past offset forgotten
RunDate_no_branch(base, hour) == base

\* run_date of the loop, lines 41-45
RunDate(base, hour) ==
    IF hour < 0 THEN base + timedelta_hours(hour) ELSE base

\* forecast_hour of the loop, lines 42-45
ForecastHour(hour) == IF hour < 0 THEN 0 ELSE hour

\* The URL of lines 47-51, by its variable parts: the date (as a day number),
\* the run hour and the forecast hour.
Url(base, hour) ==
    [date_str     |-> RunDate(base, hour) \div DaySecs,
     run_hour_str |-> HourOf(RunDate(base, hour)),
     f_hour_str   |-> ForecastHour(hour)]

\* The label cut to its clock part
time_label_clock_only(t) ==
    LET jst == t + timedelta_hours(JSTOffsetHours)
    IN  <<0, 0, "", HourOf(jst), MinuteOf(jst)>>

\* time_label, line 98: '%m/%d(dow) %H:%M JST' of the instant in JST
time_label(t) ==
    LET jst == t + timedelta_hours(JSTOffsetHours)
        md  == MonthDay(jst \div DaySecs)
    IN  <<md[1], md[2], DOW_MAP[WeekdayOf(jst \div DaySecs)], HourOf(jst), MinuteOf(jst)>>

-----------------------------------------------------------------------------
(* The target grid and the regridding *)

\* np.mgrid[plot_x_min:plot_x_max:121j, plot_y_min:plot_y_max:71j], line 38
MakeGrid ==
    [x |-> <<plot_x_min, plot_x_max, GridNx>>, y |-> <<plot_y_min, plot_y_max, GridNy>>]

\* The shape of an array evaluated on the points xi
ShapeOf(xi) == <<xi.x[3], xi.y[3]>>

\* The grid axes passed in the wrong order
griddata_transposed(payload, var, xi) ==
    [hour |-> payload[1], var |-> var, xi |-> [x |-> xi.y, y |-> xi.x]]

\* griddata(points, values, (grid_x, grid_y)), lines 65, 71, 76: the field var
\* of the file's payload, evaluated on xi
griddata(payload, var, xi) ==
    [hour |-> payload[1], var |-> var, xi |-> xi]

-----------------------------------------------------------------------------
(* Initial state: the script starts; a temp file of an earlier, killed run may
   be lying around. *)

NowAt(day, h, s) == day * DaySecs + h * HourSecs + s

\* 2024-02-27 and 2024-12-30: the offsets reach over a leap day and a new year
BaseDays == {19780, 20087}

SubHour == {0, 1, 1799, 3599}

InitCommon ==
    /\ BASE_DATE = 0
    /\ grid = [x |-> <<0, 0, 0>>, y |-> <<0, 0, 0>>]
    /\ pc = "step1"
    /\ keyframe_data_list_500hpa = <<>>
    /\ keyframe_data_list_850t = <<>>
    /\ keyframe_data_list_mslp = <<>>
    /\ filePayload = <<>>
    /\ requested = <<>>
    /\ frames = <<>>
    /\ fig_frames = <<>>
    /\ slider_steps = <<>>
    /\ outputWritten = FALSE

Init ==
    /\ now_utc \in {NowAt(20087, 17 * i + 5, 1799) : i \in 0..MaxNowSpec}
    /\ fileExists \in BOOLEAN
    /\ k = 1
    /\ InitCommon

-----------------------------------------------------------------------------
(* STEP 1 and the set-up of STEP 2, lines 13-38 *)

Step1 ==
    /\ pc = "step1"
    /\ BASE_DATE' = get_latest_gfs_run(now_utc)
    /\ grid' = MakeGrid
    /\ pc' = "loop"
    /\ UNCHANGED <<now_utc, k, keyframe_data_list_500hpa, keyframe_data_list_850t,
                   keyframe_data_list_mslp, fileExists, filePayload, requested,
                   frames, fig_frames, slider_steps, outputWritten>>

-----------------------------------------------------------------------------
(* STEP 2: one keyframe, lines 40-87 *)

hour == KEYFRAME_HOURS[k]

\* lines 40-54: the loop head
KeyframeHead ==
    /\ pc = "loop"
    /\ k <= NumKeyframes
    /\ requested' = Append(requested, [hour |-> hour, url |-> Url(BASE_DATE, hour)])
    /\ pc' = "get"
    /\ UNCHANGED <<now_utc, BASE_DATE, grid, k, keyframe_data_list_500hpa,
                   keyframe_data_list_850t, keyframe_data_list_mslp, fileExists,
                   filePayload, frames, fig_frames, slider_steps, outputWritten>>

\* The exception left uncaught
ExceptTo_uncaught == "crashed"

\* except Exception (lines 81-82): the handler prints and falls through to finally
ExceptTo == "finally"

\* lines 57-58: requests.get or raise_for_status raises; the file is untouched
GetFails ==
    /\ pc = "get"
    /\ pc' = ExceptTo
    /\ UNCHANGED <<now_utc, BASE_DATE, grid, k, keyframe_data_list_500hpa,
                   keyframe_data_list_850t, keyframe_data_list_mslp, fileExists,
                   filePayload, requested, frames, fig_frames, slider_steps,
                   outputWritten>>

\* lines 59-60: open(file_name, 'wb') creates or truncates the file, f.write raises
WriteFails ==
    /\ pc = "get"
    /\ fileExists' = TRUE
    /\ filePayload' = <<>>
    /\ pc' = ExceptTo
    /\ UNCHANGED <<now_utc, BASE_DATE, grid, k, keyframe_data_list_500hpa,
                   keyframe_data_list_850t, keyframe_data_list_mslp, requested,
                   frames, fig_frames, slider_steps, outputWritten>>

\* lines 57-61: the response of this offset's URL is in the file
GetOk ==
    /\ pc = "get"
    /\ fileExists' = TRUE
    /\ filePayload' = <<requested[Len(requested)].hour>>
    /\ pc' = "load500"
    /\ UNCHANGED <<now_utc, BASE_DATE, grid, k, keyframe_data_list_500hpa,
                   keyframe_data_list_850t, keyframe_data_list_mslp, requested,
                   frames, fig_frames, slider_steps, outputWritten>>

\* lines 63-65, 68-71 or 74-76: open_dataset, the variable lookup or griddata raises
LoadFails ==
    /\ pc \in {"load500", "load850", "loadmslp"}
    /\ pc' = ExceptTo
    /\ UNCHANGED <<now_utc, BASE_DATE, grid, k, keyframe_data_list_500hpa,
                   keyframe_data_list_850t, keyframe_data_list_mslp, fileExists,
                   filePayload, requested, frames, fig_frames, slider_steps,
                   outputWritten>>

\* lines 63-66
Load500 ==
    /\ pc = "load500"
    /\ keyframe_data_list_500hpa' =
           Append(keyframe_data_list_500hpa, griddata(filePayload, "gh", grid))
    /\ pc' = "load850"
    /\ UNCHANGED <<now_utc, BASE_DATE, grid, k, keyframe_data_list_850t,
                   keyframe_data_list_mslp, fileExists, filePayload, requested,
                   frames, fig_frames, slider_steps, outputWritten>>

\* lines 68-72
Load850 ==
    /\ pc = "load850"
    /\ keyframe_data_list_850t' =
           Append(keyframe_data_list_850t, griddata(filePayload, "t", grid))
    /\ pc' = "loadmslp"
    /\ UNCHANGED <<now_utc, BASE_DATE, grid, k, keyframe_data_list_500hpa,
                   keyframe_data_list_mslp, fileExists, filePayload, requested,
                   frames, fig_frames, slider_steps, outputWritten>>

\* lines 74-79
LoadMslp ==
    /\ pc = "loadmslp"
    /\ keyframe_data_list_mslp' =
           Append(keyframe_data_list_mslp, griddata(filePayload, "prmsl", grid))
    /\ pc' = "finally"
    /\ UNCHANGED <<now_utc, BASE_DATE, grid, k, keyframe_data_list_500hpa,
                   keyframe_data_list_850t, fileExists, filePayload, requested,
                   frames, fig_frames, slider_steps, outputWritten>>

\* The removal forgotten
ExistsAfterFinally_no_remove(exists, payload) == exists

\* finally (lines 84-87): whether the file exists after the clause
ExistsAfterFinally(exists, payload) == FALSE

Finally ==
    /\ pc = "finally"
    /\ fileExists' = ExistsAfterFinally(fileExists, filePayload)
    /\ filePayload' = IF fileExists' THEN filePayload ELSE <<>>
    /\ k' = k + 1
    /\ pc' = IF k + 1 <= NumKeyframes THEN "loop" ELSE "check"
    /\ UNCHANGED <<now_utc, BASE_DATE, grid, keyframe_data_list_500hpa,
                   keyframe_data_list_850t, keyframe_data_list_mslp, requested,
                   frames, fig_frames, slider_steps, outputWritten>>

-----------------------------------------------------------------------------
(* The minimum-data check, lines 89-91 *)

\* Only the first list looked at
EnoughData_first_list_only(l500, l850, lmslp) == Len(l500) >= MinKeyframes

\* all(len(lst) >= 2 for lst in [...]), line 89
EnoughData(l500, l850, lmslp) ==
    \A lst \in {l500, l850, lmslp} : Len(lst) >= MinKeyframes

CheckExit ==
    /\ pc = "check"
    /\ ~EnoughData(keyframe_data_list_500hpa, keyframe_data_list_850t,
                   keyframe_data_list_mslp)
    /\ pc' = "exited"
    /\ UNCHANGED <<now_utc, BASE_DATE, grid, k, keyframe_data_list_500hpa,
                   keyframe_data_list_850t, keyframe_data_list_mslp, fileExists,
                   filePayload, requested, frames, fig_frames, slider_steps,
                   outputWritten>>

-----------------------------------------------------------------------------
(* STEP 3: frame generation, lines 95-105 *)

\* lines 97-105: the frame of position i
FrameAt(base, i, l500, l850, lmslp) ==
    [name |-> time_label(base + timedelta_hours(KEYFRAME_HOURS[i])),
     data |-> <<l500[i], l850[i], lmslp[i]>>]

Min2(a, b) == IF a < b THEN a ELSE b

\* range(min(len(...))) in place of range(len(KEYFRAME_HOURS))
GenerateFrames_over_results(base, l500, l850, lmslp) ==
    LET n == Min2(Len(l500), Min2(Len(l850), Len(lmslp)))
    IN  [frames |-> [i \in 1..n |-> FrameAt(base, i, l500, l850, lmslp)],
         raised |-> FALSE]

\* for k in range(len(KEYFRAME_HOURS)), lines 96-105: the frames appended, and
\* whether an index past the end of a list raised IndexError
GenerateFrames(base, l500, l850, lmslp) ==
    LET n == Min2(NumKeyframes, Min2(Len(l500), Min2(Len(l850), Len(lmslp))))
    IN  [frames |-> [i \in 1..n |-> FrameAt(base, i, l500, l850, lmslp)],
         raised |-> n < NumKeyframes]

Step3 ==
    /\ pc = "check"
    /\ EnoughData(keyframe_data_list_500hpa, keyframe_data_list_850t,
                  keyframe_data_list_mslp)
    /\ LET r == GenerateFrames(BASE_DATE, keyframe_data_list_500hpa,
                               keyframe_data_list_850t, keyframe_data_list_mslp)
       IN  /\ frames' = r.frames
           /\ pc' = IF r.raised THEN "crashed" ELSE "step4"
    /\ UNCHANGED <<now_utc, BASE_DATE, grid, k, keyframe_data_list_500hpa,
                   keyframe_data_list_850t, keyframe_data_list_mslp, fileExists,
                   filePayload, requested, fig_frames, slider_steps, outputWritten>>

-----------------------------------------------------------------------------
(* STEP 4 and STEP 5, lines 108-193 *)

\* lines 108-187: the figure takes the frames, the slider one step per frame
Step4 ==
    /\ pc = "step4"
    /\ fig_frames' = frames
    /\ slider_steps' = [i \in 1..Len(frames) |-> frames[i].name]
    /\ pc' = "step5"
    /\ UNCHANGED <<now_utc, BASE_DATE, grid, k, keyframe_data_list_500hpa,
                   keyframe_data_list_850t, keyframe_data_list_mslp, fileExists,
                   filePayload, requested, frames, outputWritten>>

\* lines 144-156: the coastline shapefile cannot be loaded, after fig.frames is set
Step4Fails ==
    /\ pc = "step4"
    /\ fig_frames' = frames
    /\ pc' = "crashed"
    /\ UNCHANGED <<now_utc, BASE_DATE, grid, k, keyframe_data_list_500hpa,
                   keyframe_data_list_850t, keyframe_data_list_mslp, fileExists,
                   filePayload, requested, frames, slider_steps, outputWritten>>

\* lines 190-193
Step5 ==
    /\ pc = "step5"
    /\ outputWritten' = TRUE
    /\ pc' = "done"
    /\ UNCHANGED <<now_utc, BASE_DATE, grid, k, keyframe_data_list_500hpa,
                   keyframe_data_list_850t, keyframe_data_list_mslp, fileExists,
                   filePayload, requested, frames, fig_frames, slider_steps>>

Next ==
    \/ Step1
    \/ KeyframeHead
    \/ GetFails
    \/ WriteFails
    \/ GetOk
    \/ LoadFails
    \/ Load500
    \/ Load850
    \/ LoadMslp
    \/ Finally
    \/ CheckExit
    \/ Step3
    \/ Step4
    \/ Step4Fails
    \/ Step5

Spec == Init /\ [][Next]_vars

-----------------------------------------------------------------------------
(* The time computations on their own, for any clock reading and the loop at
   any position of the list: Step1 applies get_latest_gfs_run, KeyframeHead
   the derivation of the request. *)

InitTime ==
    /\ now_utc \in {NowAt(d, h, s) : d \in BaseDays, h \in 0..MaxNowHour, s \in SubHour}
    /\ fileExists = FALSE
    /\ k \in 1..NumKeyframes
    /\ InitCommon

NextTime ==
    \/ Step1
    \/ KeyframeHead

SpecTime == InitTime /\ [][NextTime]_vars

-----------------------------------------------------------------------------
(* What the claims speak of *)

InIteration == pc \in {"get", "load500", "load850", "loadmslp", "finally"}

LoopDone == pc \in {"check", "exited", "crashed", "step4", "step5", "done"}

\* Frame generation has run
FramesGenerated == pc \in {"crashed", "step4", "step5", "done"}

HoursOf(lst) == {lst[j].hour : j \in DOMAIN lst}

\* The offset hour h went through all three load/regrid steps
Succeeded(h) == h \in HoursOf(keyframe_data_list_mslp)

\* The offset hour h was processed and some step of it failed
Failed(h) ==
    /\ \E i \in 1..NumKeyframes : KEYFRAME_HOURS[i] = h /\ (i < k \/ LoopDone)
    /\ ~Succeeded(h)

SuccessfulHours == SelectSeq(KEYFRAME_HOURS, Succeeded)

FieldOf(lst, h) == lst[CHOOSE j \in DOMAIN lst : lst[j].hour = h]

\* The frames the successful offsets make, in the order of the list
ExpectedFrames ==
    [i \in 1..Len(SuccessfulHours) |->
        [name |-> time_label(BASE_DATE + timedelta_hours(SuccessfulHours[i])),
         data |-> <<FieldOf(keyframe_data_list_500hpa, SuccessfulHours[i]),
                    FieldOf(keyframe_data_list_850t, SuccessfulHours[i]),
                    FieldOf(keyframe_data_list_mslp, SuccessfulHours[i])>>]]

\* Every field of the list lst was evaluated on the grid g
AllOnGrid(lst, g) == \A j \in DOMAIN lst : lst[j].xi = g /\ ShapeOf(lst[j].xi) = <<121, 71>>

\* The issue time an URL names, and its lead hour
IssueTimeOf(url) == url.date_str * DaySecs + url.run_hour_str * HourSecs

LeadHourOf(url) == url.f_hour_str

-----------------------------------------------------------------------------
(* The claims *)

\* C1: once frame generation has run, the frame sequence consists of exactly
\* the successful offsets in their input order, the i-th frame carrying the
\* label and the three fields of the i-th successful offset.
C1_FramesAreSuccessfulOffsetsInOrder ==
    FramesGenerated => frames = ExpectedFrames

\* C2: a frame is atomic: every generated frame has its three fields (gh, t,
\* prmsl) from one offset, and no offset of which a load/regrid step failed
\* contributes a field to any frame.
C2_FramesAtomic ==
    \A i \in DOMAIN frames :
        /\ Len(frames[i].data) = 3
        /\ <<frames[i].data[1].var, frames[i].data[2].var, frames[i].data[3].var>>
              = <<"gh", "t", "prmsl">>
        /\ frames[i].data[1].hour = frames[i].data[2].hour
        /\ frames[i].data[2].hour = frames[i].data[3].hour
        /\ \A j \in 1..3 : ~Failed(frames[i].data[j].hour)

\* C3: after all offsets were processed, fewer than MinKeyframes successes end
\* the run at the insufficient-data exit with no frame built and no file written.
C3_InsufficientDataNoOutput ==
    (LoopDone /\ pc # "check" /\ Len(keyframe_data_list_mslp) < MinKeyframes) =>
        /\ pc = "exited"
        /\ frames = <<>>
        /\ fig_frames = <<>>
        /\ ~outputWritten

C3_Witness ==
    /\ pc = "exited"
    /\ Len(keyframe_data_list_mslp) = 1
    /\ Len(keyframe_data_list_500hpa) >= MinKeyframes
    /\ Len(keyframe_data_list_850t) >= MinKeyframes

\* C4: every offset of the list is attempted exactly once, in list order,
\* whatever the earlier offsets did: the requests made are always the first
\* offsets of the list, one each, and the run leaves the loop only with all made.
C4_EveryOffsetAttemptedOnce ==
    /\ \A i \in DOMAIN requested : i <= NumKeyframes /\ requested[i].hour = KEYFRAME_HOURS[i]
    /\ pc = "loop" => Len(requested) = k - 1
    /\ InIteration => Len(requested) = k
    /\ LoopDone => Len(requested) = NumKeyframes

C4_Witness ==
    /\ pc = "check"
    /\ Len(requested) = NumKeyframes
    /\ Failed(KEYFRAME_HOURS[1])
    /\ Failed(KEYFRAME_HOURS[2])
    /\ Succeeded(KEYFRAME_HOURS[3])
    /\ Failed(KEYFRAME_HOURS[NumKeyframes - 1])
    /\ Succeeded(KEYFRAME_HOURS[NumKeyframes])

\* C5: at the end of each offset's processing the temporary file does not
\* exist: not when the next offset starts, not after the loop.
C5_TempFileReleased ==
    (k > 1 /\ ~InIteration) => ~fileExists

C5_Witness ==
    /\ pc = "loop"
    /\ k = 4
    /\ ~fileExists
    /\ Len(keyframe_data_list_500hpa) = 3
    /\ Len(keyframe_data_list_850t) = 2
    /\ Len(keyframe_data_list_mslp) = 1

\* C6: the request of an offset names (anchor, offset) when offset >= 0 and
\* (anchor + offset hours, 0) when offset < 0; the lead hour is never negative
\* and issue time + lead hour is anchor + offset.
C6_RequestPair ==
    \A i \in DOMAIN requested :
        LET r == requested[i]
            issue == IssueTimeOf(r.url)
            lead  == LeadHourOf(r.url)
        IN  /\ r.hour >= 0 => (issue = BASE_DATE /\ lead = r.hour)
            /\ r.hour < 0  => (issue = BASE_DATE + timedelta_hours(r.hour) /\ lead = 0)
            /\ lead >= 0
            /\ issue + timedelta_hours(lead) = BASE_DATE + timedelta_hours(r.hour)

C6_Witness ==
    /\ Len(requested) = 1
    /\ requested[1].hour < 0
    /\ requested[1].url.date_str < BASE_DATE \div DaySecs
    /\ requested[1].url.run_hour_str # HourOf(BASE_DATE)

\* C7: the anchor is at most the current time minus the latency margin and is
\* aligned to the cycle: its hour a multiple of 6, nothing below the hour.
C7_AnchorAligned ==
    pc # "step1" =>
        /\ BASE_DATE <= now_utc - timedelta_hours(LatencyHours)
        /\ HourOf(BASE_DATE) % CycleHours = 0
        /\ BASE_DATE % HourSecs = 0

C7_Witness ==
    /\ pc # "step1"
    /\ BASE_DATE \div DaySecs < now_utc \div DaySecs
    /\ HourOf(BASE_DATE) = 18
    /\ now_utc % HourSecs # 0

C9_SameGrid ==
    pc # "step1" =>
        /\ grid.x = <<60, 180, 121>>
        /\ grid.y = <<0, 70, 71>>
        /\ AllOnGrid(keyframe_data_list_500hpa, grid)
        /\ AllOnGrid(keyframe_data_list_850t, grid)
        /\ AllOnGrid(keyframe_data_list_mslp, grid)

C9_Witness ==
    /\ Len(keyframe_data_list_500hpa) >= 2
    /\ Len(keyframe_data_list_850t) >= 2
    /\ Len(keyframe_data_list_mslp) >= 2
    /\ keyframe_data_list_500hpa[1].hour # keyframe_data_list_mslp[2].hour

\* C10: the output is written only if every offset succeeded for all three
\* fields: with a failed offset the run ends at the insufficient-data exit or in
\* frame generation's IndexError and never reaches STEP 4 or the write.
C10_WrittenOnlyIfAllSucceeded ==
    (pc \in {"step4", "step5", "done"} \/ outputWritten \/ fig_frames # <<>>) =>
        \A i \in 1..NumKeyframes :
            Succeeded(KEYFRAME_HOURS[i]) /\ ~Failed(KEYFRAME_HOURS[i])

C10_Witness ==
    /\ pc = "crashed"
    /\ Len(keyframe_data_list_mslp) = NumKeyframes - 1
    /\ Len(frames) = NumKeyframes - 1
    /\ ~outputWritten

====
